---- MODULE Spec2Model ----
(***************************************************************************)
(* Model of update_guide_ppt.py: the batch conversion of the PowerPoint    *)
(* files of <cwd>/guide_source into PDFs under <cwd>/public/guides and the *)
(* list.json manifest written after the loop.                              *)
(*                                                                         *)
(* File names are sequences of one-character strings, so that lower(),     *)
(* endswith() and os.path.splitext() are computed and not assumed.         *)
(* Modification times are small naturals; Missing stands for "no such      *)
(* file" (os.path.exists is False).                                        *)
(***************************************************************************)
EXTENDS Integers, Sequences, FiniteSets, TLC

\* ------------------------------------------------------------------ bounds
\* Largest number of entries os.listdir returns for guide_source.
MaxFiles == 2
\* Largest modification time / clock value.
MaxTime == 1

Times == 0..MaxTime
Missing == 0 - 1

\* ------------------------------------------------------------ file names
N_Apptx == <<"A", ".", "p", "p", "t", "x">>
N_APPT == <<"A", ".", "P", "P", "T">>
N_Bppt == <<"B", ".", "p", "p", "t">>
N_txt == <<"n", ".", "t", "x", "t">>

\* The names a guide_source entry may have.
Names == {N_Apptx, N_APPT, N_Bppt, N_txt}

EXT_PPTX == <<".", "p", "p", "t", "x">>
EXT_PPT == <<".", "p", "p", "t">>
EXT_PDF == <<".", "p", "d", "f">>

\* str.lower() on one character.
LowerChar(c) ==
    CASE c = "A" -> "a"
      [] c = "B" -> "b"
      [] c = "P" -> "p"
      [] c = "T" -> "t"
      [] c = "X" -> "x"
      [] OTHER -> c

\* str.lower()
Lower(s) == [i \in 1..Len(s) |-> LowerChar(s[i])]

\* str.endswith(suffix)
EndsWith(s, suf) ==
    /\ Len(s) >= Len(suf)
    /\ SubSeq(s, Len(s) - Len(suf) + 1, Len(s)) = suf

\* f.lower().endswith(('.pptx', '.ppt'))
IsCandidate(f) == EndsWith(Lower(f), EXT_PPTX) \/ EndsWith(Lower(f), EXT_PPT)

\* os.path.splitext(filename)[0]: the name up to its last dot, unless that
\* dot is only preceded by dots (or there is none).
SplitExtRoot(s) ==
    LET dots == {i \in 1..Len(s) : s[i] = "."}
        last == CHOOSE i \in dots : \A j \in dots : j <= i
    IN  IF dots = {} THEN s
        ELSE IF \E k \in 1..(last - 1) : s[k] # "." THEN SubSeq(s, 1, last - 1)
        ELSE s

\* pdf_filename = f"{name_without_ext}.pdf"
PdfName(f) == SplitExtRoot(f) \o EXT_PDF

\* the entry appended to guide_list
GuideEntry(f) == [title |-> SplitExtRoot(f), filename |-> PdfName(f)]

\* [f for f in os.listdir(source_dir) if f.lower().endswith(...)]
RECURSIVE FilterCandidates(_)
FilterCandidates(l) ==
    IF l = <<>> THEN <<>>
    ELSE IF IsCandidate(Head(l)) THEN <<Head(l)>> \o FilterCandidates(Tail(l))
    ELSE FilterCandidates(Tail(l))

PdfNames == {PdfName(n) : n \in {m \in Names : IsCandidate(m)}}

Range(s) == {s[i] : i \in 1..Len(s)}

\* All duplicate-free sequences over S of length at most n.
RECURSIVE Listings(_, _)
Listings(S, n) ==
    IF n = 0 THEN {<<>>}
    ELSE LET shorter == Listings(S, n - 1)
         IN  shorter \cup {Append(l, x) : l \in shorter, x \in S}

DistinctListings(S, n) ==
    {l \in Listings(S, n) : \A i, j \in 1..Len(l) : i # j => l[i] # l[j]}

\* A manifest left by some earlier run.
OldManifest == << << <<"title", <<"o">> >>, <<"filename", <<"o">> \o EXT_PDF>> >> >>
NoListFile == [exists |-> FALSE, content |-> <<>>]

\* --------------------------------------------------------------- state
VARIABLES
    srcDir,        \* guide_source exists
    tgtDir,        \* public/guides exists
    listing,       \* os.listdir(guide_source), in listing order
    srcMtime,      \* name -> mtime of the source file, Missing if none
    tgt,           \* pdf name -> mtime of the target file, Missing if none
    listJson,      \* public/guides/list.json: [exists, content]
    now,           \* the clock, as last read
    runsLeft,      \* invocations of the script still to come
    run,           \* invocations started so far
    pc,            \* position of the script
    exitCode,      \* sys.exit status of the last ended run, Missing if none
    ppt_files, idx, guide_list, should_convert, success,
    powerpoint, presentation, ret,
    log,           \* the COM calls of the current conversion, in order
    hist,          \* per candidate of this run: what the loop did with it
    start,         \* the file system when this run started
    prev           \* summary of the previous run

vars == <<srcDir, tgtDir, listing, srcMtime, tgt, listJson, now, runsLeft, run,
          pc, exitCode, ppt_files, idx, guide_list, should_convert, success,
          powerpoint, presentation, ret, log, hist, start, prev>>

fsVars == <<srcDir, tgtDir, listing, srcMtime, tgt, listJson, now>>
loopVars == <<ppt_files, idx, guide_list, should_convert, success>>
comVars == <<powerpoint, presentation, ret, log>>

NoPrev == [ended |-> "none", manifest |-> <<>>, allCurrent |-> FALSE,
           complete |-> FALSE]
NoStart == [srcDir |-> FALSE, tgtDir |-> FALSE,
            tgt |-> [p \in PdfNames |-> Missing], listJson |-> NoListFile]

\* ----------------------------------------------------- decisions of the loop
\* Fault: the comparison the wrong way round.
UpToDateReversedMut(tgt_mtime, src_mtime) == tgt_mtime < src_mtime
\* if tgt_mtime > src_mtime: (the target is up to date)
UpToDate(tgt_mtime, src_mtime) == tgt_mtime > src_mtime

\* should_convert, from the target's and the source's modification times
ShouldConvert(tgt_mtime, src_mtime) ==
    ~(tgt_mtime # Missing /\ UpToDate(tgt_mtime, src_mtime))

\* Fault: the entry is appended whatever the conversion returned.
ShouldAppendMut(ok) == TRUE
\* if success: guide_list.append(...)
ShouldAppend(ok) == ok

\* Fault: the file is opened for appending, the old content stays.
JsonDumpMut(old, l) ==
    old \o [i \in 1..Len(l) |->
              << <<"title", l[i].title>>, <<"filename", l[i].filename>> >>]
\* open(list_file, 'w'); json.dump(guide_list, ...): the old content is
\* dropped; a JSON array of objects, the keys of each in insertion order.
JsonDump(old, l) ==
    [i \in 1..Len(l) |->
        << <<"title", l[i].title>>, <<"filename", l[i].filename>> >>]

\* The candidates of the directory listing, as the script filters them.
Candidates == FilterCandidates(listing)

\* Every candidate has a source and a target strictly newer than it.
AllCurrent ==
    \A i \in 1..Len(Candidates) :
        /\ srcMtime[Candidates[i]] # Missing
        /\ tgt[PdfName(Candidates[i])] # Missing
        /\ tgt[PdfName(Candidates[i])] > srcMtime[Candidates[i]]

\* ------------------------------------------------------------------ Init
\* The file system before the first run, and the script not yet started.
\* Targets and sources other than those of the listed candidates play no part
\* and are left out; a target directory that holds PDFs holds the manifest of
\* the run that made them.
InitFiles ==
    /\ srcDir \in BOOLEAN
    /\ tgtDir \in BOOLEAN
    /\ listing \in (IF srcDir THEN DistinctListings(Names, MaxFiles) ELSE {<<>>})
    /\ srcMtime \in [Names -> Times \cup {Missing}]
    /\ \A n \in Names :
          /\ n \notin Range(listing) => srcMtime[n] = Missing
          /\ (n \in Range(listing) /\ ~IsCandidate(n)) => srcMtime[n] = 0
    /\ tgt \in [PdfNames -> Times \cup {Missing}]
    /\ \A p \in PdfNames :
          tgt[p] # Missing =>
              /\ tgtDir
              /\ \E n \in Range(listing) : IsCandidate(n) /\ PdfName(n) = p
    /\ listJson \in (IF ~tgtDir THEN {NoListFile}
                     ELSE IF \E p \in PdfNames : tgt[p] # Missing
                     THEN {[exists |-> TRUE, content |-> OldManifest]}
                     ELSE {NoListFile, [exists |-> TRUE, content |-> OldManifest]})
    /\ now = 0
    /\ run = 0
    /\ pc = "idle"
    /\ exitCode = Missing
    /\ ppt_files = <<>>
    /\ idx = 0
    /\ guide_list = <<>>
    /\ should_convert = TRUE
    /\ success = TRUE
    /\ powerpoint = FALSE
    /\ presentation = FALSE
    /\ ret = FALSE
    /\ log = <<>>
    /\ hist = <<>>
    /\ start = NoStart
    /\ prev = NoPrev

\* One invocation of the script, on any such file system.
Init == InitFiles /\ runsLeft = 1

\* Two invocations in succession, on a project whose public/guides does not
\* exist yet.
InitTwice == InitFiles /\ ~tgtDir /\ runsLeft = 2

\* ------------------------------------------------------------- the script
Ended == pc \in {"idle", "exited", "done", "crashed"}

TotalAttempts == Cardinality({i \in 1..Len(hist) : hist[i].attempts > 0})

\* python update_guide_ppt.py
StartRun ==
    /\ Ended
    /\ runsLeft > 0
    /\ runsLeft' = runsLeft - 1
    /\ run' = run + 1
    /\ pc' = "check_source"
    /\ exitCode' = Missing
    /\ ppt_files' = <<>>
    /\ idx' = 0
    /\ guide_list' = <<>>
    /\ should_convert' = TRUE
    /\ success' = TRUE
    /\ log' = <<>>
    /\ hist' = <<>>
    /\ start' = [srcDir |-> srcDir, tgtDir |-> tgtDir, tgt |-> tgt,
                 listJson |-> listJson]
    /\ prev' = [ended |-> pc, manifest |-> listJson.content,
                allCurrent |-> AllCurrent,
                complete |-> (Len(listJson.content) = Len(Candidates))]
    /\ UNCHANGED <<fsVars, powerpoint, presentation, ret>>

\* Fault: the target directory is made before the source directory check.
SourceDirMissingMut ==
    /\ pc = "check_source"
    /\ ~srcDir
    /\ srcDir' = TRUE
    /\ tgtDir' = TRUE
    /\ pc' = "exited"
    /\ exitCode' = 0
    /\ UNCHANGED <<listing, srcMtime, tgt, listJson, now, runsLeft, run,
                   loopVars, comVars, hist, start, prev>>

\* if not os.path.exists(source_dir): os.makedirs(source_dir); sys.exit(0)
SourceDirMissing ==
    /\ pc = "check_source"
    /\ ~srcDir
    /\ srcDir' = TRUE
    /\ pc' = "exited"
    /\ exitCode' = 0
    /\ UNCHANGED <<tgtDir, listing, srcMtime, tgt, listJson, now, runsLeft, run,
                   loopVars, comVars, hist, start, prev>>

\* os.makedirs(target_dir, exist_ok=True); ppt_files = [f for f in ...]
ListCandidates ==
    /\ pc = "check_source"
    /\ srcDir
    /\ tgtDir' = TRUE
    /\ ppt_files' = FilterCandidates(listing)
    /\ pc' = "check_empty"
    /\ UNCHANGED <<srcDir, listing, srcMtime, tgt, listJson, now, runsLeft, run,
                   exitCode, idx, guide_list, should_convert, success,
                   comVars, hist, start, prev>>

\* Fault: an empty manifest is written before the early exit.
NoInputExitMut ==
    /\ pc = "check_empty"
    /\ ppt_files = <<>>
    /\ listJson' = [exists |-> TRUE, content |-> <<>>]
    /\ pc' = "exited"
    /\ exitCode' = 0
    /\ UNCHANGED <<srcDir, tgtDir, listing, srcMtime, tgt, now, runsLeft, run,
                   loopVars, comVars, hist, start, prev>>

\* if not ppt_files: sys.exit(0)
NoInputExit ==
    /\ pc = "check_empty"
    /\ ppt_files = <<>>
    /\ pc' = "exited"
    /\ exitCode' = 0
    /\ UNCHANGED <<fsVars, runsLeft, run, loopVars, comVars, hist, start, prev>>

\* guide_list = []; for filename in ppt_files:
BeginLoop ==
    /\ pc = "check_empty"
    /\ ppt_files # <<>>
    /\ guide_list' = <<>>
    /\ idx' = 1
    /\ pc' = "loop"
    /\ UNCHANGED <<fsVars, runsLeft, run, exitCode, ppt_files, should_convert,
                   success, comVars, hist, start, prev>>

filename == ppt_files[idx]
source_file == filename
target_file == PdfName(filename)

\* os.path.getmtime(source_file) raises FileNotFoundError: the target exists
\* and the listed source does not. Nothing catches it; the interpreter exits 1.
GetmtimeRaises ==
    /\ pc = "loop"
    /\ idx <= Len(ppt_files)
    /\ tgt[target_file] # Missing
    /\ srcMtime[source_file] = Missing
    /\ pc' = "crashed"
    /\ exitCode' = 1
    /\ UNCHANGED <<fsVars, runsLeft, run, loopVars, comVars, hist, start, prev>>

\* should_convert = True; if os.path.exists(target_file): ... tgt > src
CheckStaleness ==
    /\ pc = "loop"
    /\ idx <= Len(ppt_files)
    /\ ~(tgt[target_file] # Missing /\ srcMtime[source_file] = Missing)
    /\ should_convert' = ShouldConvert(tgt[target_file], srcMtime[source_file])
    /\ hist' = Append(hist, [file |-> filename,
                             srcAt |-> srcMtime[source_file],
                             tgtAll |-> tgt,
                             at |-> now,
                             convert |-> ShouldConvert(tgt[target_file],
                                                       srcMtime[source_file]),
                             attempts |-> 0,
                             result |-> "none",
                             threeOk |-> FALSE,
                             doneAt |-> now,
                             appended |-> FALSE])
    /\ pc' = "call"
    /\ UNCHANGED <<fsVars, runsLeft, run, exitCode, ppt_files, idx, guide_list,
                   success, comVars, start, prev>>

\* success = True  (should_convert is False)
SkipConversion ==
    /\ pc = "call"
    /\ ~should_convert
    /\ success' = TRUE
    /\ hist' = [hist EXCEPT ![idx].result = "skipped"]
    /\ pc' = "append"
    /\ UNCHANGED <<fsVars, runsLeft, run, exitCode, ppt_files, idx, guide_list,
                   should_convert, comVars, start, prev>>

\* success = convert_ppt_to_pdf(source_file, target_file): the call
CallConvert ==
    /\ pc = "call"
    /\ should_convert
    /\ hist' = [hist EXCEPT ![idx].attempts = @ + 1]
    /\ pc' = "cv_input"
    /\ UNCHANGED <<fsVars, runsLeft, run, exitCode, loopVars, comVars, start,
                   prev>>

\* ------------------------------------------------ convert_ppt_to_pdf
Call(name, ok) == [call |-> name, ok |-> ok]

\* if not os.path.exists(input_path): return False
InputNotFound ==
    /\ pc = "cv_input"
    /\ srcMtime[source_file] = Missing
    /\ ret' = FALSE
    /\ pc' = "cv_return"
    /\ UNCHANGED <<fsVars, runsLeft, run, exitCode, loopVars, powerpoint,
                   presentation, log, hist, start, prev>>

\* powerpoint = None; presentation = None; try:
EnterTry ==
    /\ pc = "cv_input"
    /\ srcMtime[source_file] # Missing
    /\ powerpoint' = FALSE
    /\ presentation' = FALSE
    /\ pc' = "cv_create"
    /\ UNCHANGED <<fsVars, runsLeft, run, exitCode, loopVars, ret, log, hist,
                   start, prev>>

\* powerpoint = comtypes.client.CreateObject("Powerpoint.Application")
CreateObject ==
    /\ pc = "cv_create"
    /\ \E ok \in BOOLEAN :
          /\ log' = Append(log, Call("CreateObject", ok))
          /\ powerpoint' = ok
          /\ pc' = IF ok THEN "cv_open" ELSE "cv_except"
    /\ UNCHANGED <<fsVars, runsLeft, run, exitCode, loopVars, presentation, ret,
                   hist, start, prev>>

\* presentation = powerpoint.Presentations.Open(input_path, WithWindow=False)
OpenPresentation ==
    /\ pc = "cv_open"
    /\ \E ok \in BOOLEAN :
          /\ log' = Append(log, Call("Open", ok))
          /\ presentation' = ok
          /\ pc' = IF ok THEN "cv_save" ELSE "cv_except"
    /\ UNCHANGED <<fsVars, runsLeft, run, exitCode, loopVars, powerpoint, ret,
                   hist, start, prev>>

\* presentation.SaveAs(output_path, 32); return True
\* The application writes the target at the current time, which is not
\* earlier than any time read before.
SaveAsOk ==
    /\ pc = "cv_save"
    /\ \E t \in now..MaxTime :
          /\ tgt' = [tgt EXCEPT ![target_file] = t]
          /\ now' = t
    /\ log' = Append(log, Call("SaveAs", TRUE))
    /\ ret' = TRUE
    /\ pc' = "cv_close"
    /\ UNCHANGED <<srcDir, tgtDir, listing, srcMtime, listJson, runsLeft, run,
                   exitCode, loopVars, powerpoint, presentation, hist, start,
                   prev>>

\* presentation.SaveAs raises; the call is taken to have left the target as
\* it was.
SaveAsFails ==
    /\ pc = "cv_save"
    /\ log' = Append(log, Call("SaveAs", FALSE))
    /\ pc' = "cv_except"
    /\ UNCHANGED <<fsVars, runsLeft, run, exitCode, loopVars, powerpoint,
                   presentation, ret, hist, start, prev>>

\* except Exception as e: print(...); return False
ExceptHandler ==
    /\ pc = "cv_except"
    /\ ret' = FALSE
    /\ pc' = "cv_close"
    /\ UNCHANGED <<fsVars, runsLeft, run, exitCode, loopVars, powerpoint,
                   presentation, log, hist, start, prev>>

\* Fault: an exception of Close() leaves the finally block.
AfterCloseRaisedMut == "cv_return"
\* except: pass -- where the finally block goes on after Close() raised
AfterCloseRaised == "cv_quit"

\* Fault: a cleanup call that raised turns the result into False.
RetAfterCleanupRaisedMut(r) == FALSE
\* except: pass -- the pending return value after a cleanup call raised
RetAfterCleanupRaised(r) == r

\* finally: if presentation: try: presentation.Close() except: pass
FinallyClose ==
    /\ pc = "cv_close"
    /\ IF presentation
       THEN \E ok \in BOOLEAN :
               /\ log' = Append(log, Call("Close", ok))
               /\ pc' = IF ok THEN "cv_quit" ELSE AfterCloseRaised
               /\ ret' = IF ok THEN ret ELSE RetAfterCleanupRaised(ret)
       ELSE /\ pc' = "cv_quit"
            /\ UNCHANGED <<log, ret>>
    /\ UNCHANGED <<fsVars, runsLeft, run, exitCode, loopVars, powerpoint,
                   presentation, hist, start, prev>>

\* if powerpoint: try: powerpoint.Quit() except: pass
FinallyQuit ==
    /\ pc = "cv_quit"
    /\ IF powerpoint
       THEN \E ok \in BOOLEAN :
               /\ log' = Append(log, Call("Quit", ok))
               /\ ret' = IF ok THEN ret ELSE RetAfterCleanupRaised(ret)
       ELSE UNCHANGED <<log, ret>>
    /\ pc' = "cv_return"
    /\ UNCHANGED <<fsVars, runsLeft, run, exitCode, loopVars, powerpoint,
                   presentation, hist, start, prev>>

\* The call `name` is in the log and did not raise.
Succeeded(l, name) == \E k \in 1..Len(l) : l[k] = Call(name, TRUE)
ThreeOk(l) ==
    Succeeded(l, "CreateObject") /\ Succeeded(l, "Open") /\ Succeeded(l, "SaveAs")

\* success = convert_ppt_to_pdf(...): the return; the callee's locals are gone
Return ==
    /\ pc = "cv_return"
    /\ success' = ret
    /\ powerpoint' = FALSE
    /\ presentation' = FALSE
    /\ hist' = [hist EXCEPT ![idx].result = IF ret THEN "converted" ELSE "failed",
                            ![idx].threeOk = ThreeOk(log),
                            ![idx].doneAt = now]
    /\ log' = <<>>
    /\ pc' = "append"
    /\ UNCHANGED <<fsVars, runsLeft, run, exitCode, ppt_files, idx, guide_list,
                   should_convert, ret, start, prev>>

\* if success: guide_list.append({...}); next filename
AppendEntry ==
    /\ pc = "append"
    /\ guide_list' = IF ShouldAppend(success)
                     THEN Append(guide_list, GuideEntry(filename))
                     ELSE guide_list
    /\ hist' = [hist EXCEPT ![idx].appended = ShouldAppend(success)]
    /\ idx' = idx + 1
    /\ pc' = "loop"
    /\ UNCHANGED <<fsVars, runsLeft, run, exitCode, ppt_files, should_convert,
                   success, comVars, start, prev>>

\* with open(list_file, 'w') as f: json.dump(guide_list, f, ...)
WriteManifest ==
    /\ pc = "loop"
    /\ idx > Len(ppt_files)
    /\ listJson' = [exists |-> TRUE,
                    content |-> JsonDump(listJson.content, guide_list)]
    /\ pc' = "done"
    /\ exitCode' = 0
    /\ UNCHANGED <<srcDir, tgtDir, listing, srcMtime, tgt, now, runsLeft, run,
                   loopVars, comVars, hist, start, prev>>

Next ==
    \/ StartRun
    \/ SourceDirMissing
    \/ ListCandidates
    \/ NoInputExit
    \/ BeginLoop
    \/ GetmtimeRaises
    \/ CheckStaleness
    \/ SkipConversion
    \/ CallConvert
    \/ InputNotFound
    \/ EnterTry
    \/ CreateObject
    \/ OpenPresentation
    \/ SaveAsOk
    \/ SaveAsFails
    \/ ExceptHandler
    \/ FinallyClose
    \/ FinallyQuit
    \/ Return
    \/ AppendEntry
    \/ WriteManifest

Spec == Init /\ [][Next]_vars

SpecTwice == InitTwice /\ [][Next]_vars

\* ================================================================ claims
\* Names and expected titles, written out rather than computed.
PresentationNames == {N_Apptx, N_APPT, N_Bppt}
ExpectedTitle(n) ==
    CASE n = N_Apptx -> <<"A">>
      [] n = N_APPT -> <<"A">>
      [] n = N_Bppt -> <<"B">>
      [] OTHER -> <<>>
ExpectedJson(n) ==
    << <<"title", ExpectedTitle(n)>>,
       <<"filename", ExpectedTitle(n) \o <<".", "p", "d", "f">> >> >>

InConvert == pc \in {"cv_input", "cv_create", "cv_open", "cv_save", "cv_except",
                     "cv_close", "cv_quit", "cv_return"}

\* Candidate i of this run has been through the staleness check and, if it was
\* to be converted, the call has been made.
Settled(i) == i \in 1..Len(hist) /\ (i < idx \/ pc # "call")
\* Candidate i of this run has been through the whole loop body.
Processed(i) == i \in 1..Len(hist) /\ i < idx

TgtAt(i) == hist[i].tgtAll[PdfName(hist[i].file)]

\* ------------------------------------------------------------------- C1
\* C1: a guide entry is appended for a candidate iff, after it is processed,
\* its target is known to exist (it was already up to date, or it was freshly
\* converted) and the conversion attempt, if any, reported success; every
\* entry of the manifest written at the end of a run names a target file that
\* exists at that moment.
C1_EntryIffTargetAvailable ==
    /\ \A i \in 1..Len(hist) :
          Processed(i) =>
              /\ hist[i].appended <=>
                    \/ (hist[i].attempts = 0 /\ TgtAt(i) # Missing)
                    \/ (hist[i].attempts = 1 /\ hist[i].result = "converted")
              /\ hist[i].appended => tgt[PdfName(hist[i].file)] # Missing
    /\ Len(guide_list) =
          Cardinality({i \in 1..Len(hist) : Processed(i) /\ hist[i].appended})
    /\ pc = "done" =>
          \A k \in 1..Len(listJson.content) :
              \E p \in PdfNames :
                  /\ listJson.content[k][2] = <<"filename", p>>
                  /\ tgt[p] # Missing

\* A run has appended an entry for a file that was already up to date and
\* left out one whose conversion failed although its stale target exists.
C1_Witness ==
    /\ pc = "done"
    /\ \E i \in 1..Len(hist) : hist[i].appended /\ hist[i].attempts = 0
    /\ \E i \in 1..Len(hist) :
          ~hist[i].appended /\ hist[i].attempts = 1 /\ TgtAt(i) # Missing

\* ------------------------------------------------------------------- C2
RECURSIVE ExpectedManifest(_)
ExpectedManifest(n) ==
    IF n = 0 THEN <<>>
    ELSE IF hist[n].result \in {"skipped", "converted"}
         THEN Append(ExpectedManifest(n - 1), ExpectedJson(hist[n].file))
         ELSE ExpectedManifest(n - 1)

RECURSIVE PresentationsOf(_)
PresentationsOf(l) ==
    IF l = <<>> THEN <<>>
    ELSE IF Head(l) \in PresentationNames
         THEN <<Head(l)>> \o PresentationsOf(Tail(l))
         ELSE PresentationsOf(Tail(l))

\* C2: when a run writes the manifest, list.json holds exactly the candidates
\* (the .pptx/.ppt entries of the listing, in listing order) that were freshly
\* converted or skipped as up to date, one {title, filename} entry each, and
\* nothing for a candidate whose conversion failed.
C2_ManifestIsSubsequence ==
    pc = "done" =>
        /\ Len(hist) = Len(PresentationsOf(listing))
        /\ \A i \in 1..Len(hist) : hist[i].file = PresentationsOf(listing)[i]
        /\ listJson = [exists |-> TRUE, content |-> ExpectedManifest(Len(hist))]

\* A manifest written over an earlier one, for two candidates with an
\* upper-case extension among them, the first of which failed.
C2_Witness ==
    /\ pc = "done"
    /\ start.listJson.exists
    /\ Len(hist) = 2
    /\ hist[1].result = "failed"
    /\ hist[2].result = "converted"
    /\ N_APPT \in Range(listing)

\* ------------------------------------------------------------------- C3
\* What holds of the candidates the loop has taken up: a missing target, or
\* one not strictly newer than the source, gets exactly one call of
\* convert_ppt_to_pdf; a strictly newer target gets none and an entry in
\* guide_list.
StalenessDecidesAttempt ==
    \A i \in 1..Len(hist) :
        Settled(i) =>
            /\ (TgtAt(i) = Missing \/ TgtAt(i) <= hist[i].srcAt)
                  => hist[i].attempts = 1
            /\ (TgtAt(i) # Missing /\ TgtAt(i) > hist[i].srcAt)
                  => /\ hist[i].attempts = 0
                     /\ Processed(i) => hist[i].appended

\* The target's and the source's modification times of candidate i as the
\* loop met them, or as they are if the loop never reached it.
TgtOf(i) == IF i <= Len(hist) THEN TgtAt(i) ELSE tgt[PdfName(ppt_files[i])]
SrcOf(i) == srcMtime[ppt_files[i]]
AttemptsOf(i) == IF i <= Len(hist) THEN hist[i].attempts ELSE 0

\* C3: when a run has ended, for every candidate of it: if its target was
\* missing, or not strictly newer than its source, convert_ppt_to_pdf was
\* called exactly once for it; if its target was strictly newer, the function
\* was not called and the candidate has its entry in the manifest of the run.
C3_EveryCandidateDecided ==
    (run >= 1 /\ pc \in {"done", "crashed"}) =>
        \A i \in 1..Len(ppt_files) :
            /\ (TgtOf(i) = Missing \/ (SrcOf(i) # Missing /\ TgtOf(i) <= SrcOf(i)))
                  => AttemptsOf(i) = 1
            /\ (TgtOf(i) # Missing /\ SrcOf(i) # Missing /\ TgtOf(i) > SrcOf(i))
                  => /\ AttemptsOf(i) = 0
                     /\ pc = "done"
                     /\ ExpectedJson(ppt_files[i]) \in Range(listJson.content)

\* ------------------------------------------------------------------- C4
SecondRun == run = 2 /\ prev.ended = "done"

C5_ErrorsContained ==
    (run >= 1 /\ ppt_files # <<>> /\ Ended) =>
        /\ pc = "done"
        /\ listJson.exists
        /\ exitCode = 0

\* ------------------------------------------------------------------- C6
\* C6: a run started without guide_source creates it and ends with status 0;
\* it calls convert_ppt_to_pdf for no file, does not create public/guides and
\* leaves list.json and the targets as they were.
C6_MissingSourceDirFrame ==
    (run >= 1 /\ ~start.srcDir) =>
        /\ pc \in {"check_source", "exited"}
        /\ hist = <<>>
        /\ tgtDir = start.tgtDir
        /\ listJson = start.listJson
        /\ tgt = start.tgt
        /\ pc = "exited" => (srcDir /\ exitCode = 0)

\* Such a run has ended; neither directory existed.
C6_Witness ==
    /\ run >= 1 /\ ~start.srcDir /\ ~start.tgtDir
    /\ pc = "exited"

\* ------------------------------------------------------------------- C8
\* C8: a run that finds guide_source without any .pptx/.ppt entry (in any
\* letter case) ends early with status 0: public/guides exists afterwards,
\* convert_ppt_to_pdf is called for no file, and list.json is neither created
\* nor changed.
C8_NoInputFrame ==
    (run >= 1 /\ start.srcDir /\ Range(listing) \cap PresentationNames = {}) =>
        /\ pc \in {"check_source", "check_empty", "exited"}
        /\ hist = <<>>
        /\ listJson = start.listJson
        /\ tgt = start.tgt
        /\ pc = "exited" => (tgtDir /\ exitCode = 0)

\* Such a run has ended with a non-presentation file in the directory and an
\* earlier manifest in place.
C8_Witness ==
    /\ run >= 1 /\ start.srcDir /\ listing = <<N_txt>>
    /\ start.listJson.exists
    /\ pc = "exited"

\* ------------------------------------------------------------------- C7
Max(a, b) == IF a >= b THEN a ELSE b

\* What the loop would have done with candidate j had the conversion of the
\* earlier candidate i, which failed, succeeded at time t: the targets as they
\* would be when candidate k is taken up, every other conversion failing or
\* succeeding as it did.
RECURSIVE TgtHadSucceeded(_, _, _)
TgtHadSucceeded(i, t, k) ==
    IF k = i + 1
    THEN [hist[i].tgtAll EXCEPT ![PdfName(hist[i].file)] = t]
    ELSE LET before == TgtHadSucceeded(i, t, k - 1)
             h == hist[k - 1]
             p == PdfName(h.file)
             converts == /\ ShouldConvert(before[p], h.srcAt)
                         /\ h.srcAt # Missing
                         /\ h.result # "failed"
             when == IF h.result = "converted" THEN Max(h.doneAt, t)
                     ELSE Max(h.at, t)
         IN  IF converts THEN [before EXCEPT ![p] = when] ELSE before

DecisionHadSucceeded(i, t, j) ==
    LET before == TgtHadSucceeded(i, t, j)
        p == PdfName(hist[j].file)
    IN  IF before[p] # Missing /\ hist[j].srcAt = Missing THEN "raises"
        ELSE IF ShouldConvert(before[p], hist[j].srcAt) THEN "convert"
        ELSE "skip"

Decision(j) == IF hist[j].convert THEN "convert" ELSE "skip"

\* C7: when the conversion of a candidate fails in the application, every
\* later candidate (whose source file exists) gets the staleness decision and
\* the conversion attempt it would get had that conversion succeeded (at
\* whatever time).
C7_FailureDoesNotReachLaterFiles ==
    \A i, j \in 1..Len(hist) :
        (/\ i < j /\ Settled(j)
         /\ hist[i].result = "failed" /\ hist[i].srcAt # Missing
         /\ hist[j].srcAt # Missing)
            => \A t \in hist[i].at..MaxTime :
                  /\ Decision(j) = DecisionHadSucceeded(i, t, j)
                  /\ hist[j].attempts
                        = (IF DecisionHadSucceeded(i, t, j) = "convert" THEN 1 ELSE 0)

\* ------------------------------------------------------------------- C9
Position(l, name) == CHOOSE k \in 1..Len(l) : l[k].call = name
Called(l, name) == \E k \in 1..Len(l) : l[k].call = name
Raised(l, name) == \E k \in 1..Len(l) : l[k] = Call(name, FALSE)

\* C9: when convert_ppt_to_pdf returns, whatever the exit path, Quit has been
\* called if the application was created, Close has been called, before Quit,
\* if the presentation was opened, and Quit has been called also when Close
\* raised; outside convert_ppt_to_pdf the script holds no application and no
\* presentation, and a conversion creates at most one application.
C9_ReleasedOnEveryPath ==
    /\ pc = "cv_return" =>
          /\ Succeeded(log, "CreateObject") => Called(log, "Quit")
          /\ Succeeded(log, "Open") =>
                /\ Called(log, "Close")
                /\ Called(log, "Quit")
                /\ Position(log, "Close") < Position(log, "Quit")
          /\ Raised(log, "Close") => Called(log, "Quit")
          /\ Called(log, "Quit") => log[Len(log)].call = "Quit"
    /\ ~InConvert => (~powerpoint /\ ~presentation)
    /\ Cardinality({k \in 1..Len(log) : log[k].call = "CreateObject"}) <= 1

\* SaveAs raised, Close raised, and Quit was still called before the return.
C9_Witness ==
    /\ pc = "cv_return"
    /\ Raised(log, "SaveAs")
    /\ Raised(log, "Close")
    /\ Called(log, "Quit")

\* ------------------------------------------------------------------ C10
\* C10: the value convert_ppt_to_pdf returns is True exactly when CreateObject,
\* Open and SaveAs all succeeded, whether or not Close or Quit raised; and a
\* candidate it was called for gets a manifest entry exactly in that case.
C10_CleanupFailureIgnored ==
    /\ pc = "cv_return" => (ret <=> ThreeOk(log))
    /\ \A i \in 1..Len(hist) :
          (Processed(i) /\ hist[i].attempts = 1) =>
              (hist[i].appended <=> hist[i].threeOk)

\* A conversion returns True although both Close and Quit raised.
C10_Witness ==
    /\ pc = "cv_return"
    /\ ret
    /\ Raised(log, "Close")
    /\ Raised(log, "Quit")
====
